---- MODULE Spec2Model ----
(***************************************************************************)
(* Model of the network monitor: the NetworkMonitor engine of              *)
(* backend/network_monitor.py (aggregate counters, bandwidth history,      *)
(* per-process rates, connection table) and the broadcast loop and         *)
(* WebSocket handler of backend/main.py.                                   *)
(*                                                                         *)
(* Time is the sequence of values time.time() returns: integers that never *)
(* decrease.  A rate a / b (Python float division) is kept as the exact    *)
(* fraction [num |-> a, den |-> b] in lowest terms; the integer 0 the code *)
(* uses for "no rate" is the fraction 0 / 1.                               *)
(***************************************************************************)
EXTENDS Integers, Sequences, FiniteSets, TLC

VARIABLES
    \* ---- NetworkMonitor fields (network_monitor.py 50-63)
    bandwidth_history,          \* deque(maxlen = history_length) of BandwidthPoint
    connections,                \* Dict[str, dict]: connection id -> record
    previous_io_counters,       \* last psutil.net_io_counters() or NoCounters
    previous_time,              \* time of that sample or None
    start_time,                 \* time.time() at construction
    total_bytes_sent,
    total_bytes_received,
    process_bandwidth,          \* Dict[pid, {download, upload}]
    previous_process_counters,  \* Dict[pid, {bytes_in, bytes_out}]
    previous_nettop_time,       \* time of the last successful nettop sample or None
    \* ---- environment and observation
    now,                        \* the last value time.time() returned
    update_calls,               \* number of update() calls that returned, saturating at 2
    points_appended,            \* number of BandwidthPoints appended so far
    data,                       \* the dict the last update() returned
    probe,                      \* what the samplers returned to the last update()
    ever_seen,                  \* every connection id the table has held
    first_seen,                 \* connection id -> time it first entered the table
                                \* (kept in the runs about the connection table)
    result,                     \* what the last read accessor call returned
    \* ---- main.py: the broadcast loop monitor_network
    active_connections,         \* Set[WebSocket]
    pc,                         \* where monitor_network is suspended
    connection,                 \* loop variable of "for connection in active_connections"
    iter_used,                  \* set size the set iterator remembers
    iter_remaining,             \* members the set iterator has yet to yield
    disconnected,               \* local set of the clients whose send raised
    attempts,                   \* client -> send_text calls of the current publish
    live_at_start,              \* active_connections when the publish loop began
    dropped,                    \* clients whose send raised in a publish that has ended
    \* ---- main.py: one websocket_endpoint coroutine per client
    ws,                         \* client -> where its handler is suspended
    \* ---- main.py: what the coroutines have done
    sent_log,                   \* client -> tags of the snapshot messages sent to it
    caller,                     \* the coroutine that called update() last
    rearmed,                    \* the loop's last sleep was the one of line 55
    last_received,              \* what wait_for(receive_text()) gave last, and to whom
                                \* (kept in the runs about the handler)
    \* ---- the event loop
    in_update,                  \* coroutine -> how far inside update() it is
    running                     \* the coroutine the event loop is running

engineVars == <<bandwidth_history, connections, previous_io_counters, previous_time,
                start_time, total_bytes_sent, total_bytes_received, process_bandwidth,
                previous_process_counters, previous_nettop_time>>
observeVars == <<now, update_calls, points_appended, data, probe, ever_seen>>
loopVars == <<active_connections, pc, connection, iter_used, iter_remaining,
              disconnected, attempts, live_at_start, dropped>>
traceVars == <<sent_log, caller, rearmed, last_received>>
schedVars == <<in_update, running>>
mainVars == <<loopVars, ws, traceVars, schedVars>>
vars == <<engineVars, observeVars, first_seen, result, mainVars>>

----------------------------------------------------------------------------
\* Bounds of the model.

\* history_length handed to NetworkMonitor (config.HISTORY_LENGTH is 30).
HistoryLength == 2

\* time.time() stays within 0..MaxTime where the history is not what is varied.
MaxTime == 2


\* Number of WebSocket clients that ever connect.
MaxClients == 3

\* Number of clients in the runs that need no third one.
MaxSubscribers == 2

\* Number of clients in the runs with fairness, with the engine's counters
\* varied, or with update() taken statement by statement.
MaxFewSubscribers == 1

\* Values of a cumulative byte counter: it can stay, grow and fall.
Bytes == {0, 1}

\* A clock: time.time() stays within 0..max, and one update() call, with the
\* pause before it, takes at most step.
Clock(step, max) == [step |-> step, max |-> max]

\* The clock of the runs that fill the history: long enough to append one point
\* more than the buffer holds.
HistoryClock == Clock(1, HistoryLength + 1)

ShortClock == Clock(1, MaxTime)

FrozenClock == Clock(0, 0)

Pids == {1, 2}

Clients == 1..MaxClients

----------------------------------------------------------------------------
\* Values.

\* Python's None, for the fields that hold a time or a pid.
None == -1

\* previous_io_counters = None
NoCounters == [bytes_sent |-> None, bytes_recv |-> None]

RECURSIVE Gcd(_, _)
Gcd(a, b) == IF b = 0 THEN a ELSE Gcd(b, a % b)

Abs(a) == IF a < 0 THEN -a ELSE a

\* Float division a / b for b > 0, kept exact: the fraction in lowest terms,
\* so that equal quotients are equal values.
Div(a, b) ==
    LET g == Gcd(Abs(a), b)
    IN  [num |-> a \div g, den |-> b \div g]

\* The int 0 used where a rate is expected.
Zero == Div(0, 1)

AddRate(a, b) == Div(a.num * b.den + b.num * a.den, a.den * b.den)

NonNegative(r) == r.den > 0 /\ r.num >= 0

\* BandwidthPoint(timestamp, upload, download)
BandwidthPoint(timestamp, upload, download) ==
    [timestamp |-> timestamp, upload |-> upload, download |-> download]

\* deque.append on a deque(maxlen = HistoryLength): a full deque drops its
\* leftmost item; a deque of maxlen 0 stays empty.
DequeAppendNoEvict(q, x) == Append(q, x)

DequeAppend(q, x) ==
    IF HistoryLength = 0 THEN << >>
    ELSE IF Len(q) = HistoryLength THEN Append(Tail(q), x)
    ELSE Append(q, x)

----------------------------------------------------------------------------
\* NetworkMonitor._update_io_counters, given what psutil.net_io_counters()
\* and time.time() returned.

HasBaselineAlways(current_time) == current_time - previous_time > 0

HasBaseline(current_time) ==
    /\ previous_io_counters # NoCounters
    /\ previous_time # None
    /\ current_time - previous_time > 0

UploadSpeed(current_counters, current_time) ==
    Div(current_counters.bytes_sent - previous_io_counters.bytes_sent,
        current_time - previous_time)

DownloadSpeed(current_counters, current_time) ==
    Div(current_counters.bytes_recv - previous_io_counters.bytes_recv,
        current_time - previous_time)

IoPoint(current_counters, current_time) ==
    BandwidthPoint(current_time,
                   UploadSpeed(current_counters, current_time),
                   DownloadSpeed(current_counters, current_time))

UpdateIoCounters(current_counters, current_time) ==
    /\ bandwidth_history' =
          IF HasBaseline(current_time)
          THEN DequeAppend(bandwidth_history, IoPoint(current_counters, current_time))
          ELSE bandwidth_history
    /\ points_appended' =
          IF HasBaseline(current_time) THEN points_appended + 1 ELSE points_appended
    /\ previous_io_counters' = current_counters
    /\ previous_time' = current_time
    /\ total_bytes_sent' = current_counters.bytes_sent
    /\ total_bytes_received' = current_counters.bytes_recv

----------------------------------------------------------------------------
\* NetworkMonitor._update_process_bandwidth.  nettop is what the nettop run
\* gave: kind "ok" with the parsed current_counters (pid -> bytes_in,
\* bytes_out), "nonzero" for a non-zero return code, "raised" for
\* TimeoutExpired, FileNotFoundError or any other exception.

EmptyDict == [x \in {} |-> x]

NettopRaised == {[kind |-> "raised", counters |-> EmptyDict]}

NettopFailed == NettopRaised \cup {[kind |-> "nonzero", counters |-> EmptyDict]}

\* The samples nettop may give: process 1 with any counters, process 2 idle.
NettopSamples ==
    {c \in UNION {[S -> [bytes_in : Bytes, bytes_out : Bytes]] : S \in SUBSET Pids} :
        2 \in DOMAIN c => c[2] = [bytes_in |-> 0, bytes_out |-> 0]}

NettopOk == {[kind |-> "ok", counters |-> c] : c \in NettopSamples}

\* max(0, delta)
ProcessDeltaUnclamped(current, previous) == current - previous

ProcessDelta(current, previous) ==
    IF current - previous > 0 THEN current - previous ELSE 0

\* The rate table built by the loop of lines 166-184.
ComputedProcessBandwidth(current_counters, time_delta) ==
    [pid \in DOMAIN current_counters \cap DOMAIN previous_process_counters |->
        [download |-> Div(ProcessDelta(current_counters[pid].bytes_in,
                                       previous_process_counters[pid].bytes_in),
                          time_delta),
         upload   |-> Div(ProcessDelta(current_counters[pid].bytes_out,
                                       previous_process_counters[pid].bytes_out),
                          time_delta)]]

\* "if self.previous_process_counters and self.previous_nettop_time is not None"
\* and "if time_delta > 0": an empty dict is false.
HasProcessBaseline(current_time) ==
    /\ DOMAIN previous_process_counters # {}
    /\ previous_nettop_time # None
    /\ current_time - previous_nettop_time > 0

ProcessBandwidthZeroedOnFailure(nettop, current_time) ==
    IF nettop.kind # "ok" THEN EmptyDict
    ELSE IF HasProcessBaseline(current_time)
    THEN ComputedProcessBandwidth(nettop.counters, current_time - previous_nettop_time)
    ELSE process_bandwidth

\* self.process_bandwidth after the call.
NewProcessBandwidth(nettop, current_time) ==
    IF nettop.kind # "ok" THEN process_bandwidth
    ELSE IF HasProcessBaseline(current_time)
    THEN ComputedProcessBandwidth(nettop.counters, current_time - previous_nettop_time)
    ELSE process_bandwidth

UpdateProcessBandwidth(nettop, current_time) ==
    /\ process_bandwidth' = NewProcessBandwidth(nettop, current_time)
    /\ previous_process_counters' =
          IF nettop.kind = "ok" THEN nettop.counters ELSE previous_process_counters
    /\ previous_nettop_time' =
          IF nettop.kind = "ok" THEN current_time ELSE previous_nettop_time

----------------------------------------------------------------------------
\* Connection enumeration and reconciliation (update, lines 207-268).

NoAddr == "none"

\* The sockets psutil.net_connections(kind='inet') may list: an established
\* TCP connection of process 1, a connected UDP socket whose pid is unknown,
\* and a listening socket (no remote address).
Sockets ==
    { [type |-> "SOCK_STREAM", laddr |-> "10.0.0.1:5000", raddr |-> "10.0.0.9:443",
       pid |-> 1, status |-> "ESTABLISHED"],
      [type |-> "SOCK_DGRAM", laddr |-> "10.0.0.1:5353", raddr |-> "10.0.0.7:53",
       pid |-> None, status |-> "NONE"],
      [type |-> "SOCK_STREAM", laddr |-> "0.0.0.0:8080", raddr |-> NoAddr,
       pid |-> 1, status |-> "LISTEN"] }

\* What the enumeration gave: AccessDenied / PermissionError, or a list.
Denied == [denied |-> TRUE, list |-> {}]

Enumerations(sockets) == {[denied |-> FALSE, list |-> L] : L \in SUBSET sockets}

\* _get_connection_id: f"{type}_{local}_{remote}_{pid}", kept as the tuple of
\* its four parts.
GetConnectionId(conn) ==
    << conn.type,
       IF conn.laddr # NoAddr THEN conn.laddr ELSE "unknown",
       IF conn.raddr # NoAddr THEN conn.raddr ELSE "unknown",
       conn.pid >>

\* _format_addr
FormatAddr(addr) == IF addr # NoAddr THEN addr ELSE "N/A"

\* _get_process_name, with the process table fixed.
GetProcessName(pid) == IF pid = None THEN "Unknown" ELSE "proc"

ConnectionsListStaleOnDenied(enumeration) ==
    IF enumeration.denied THEN probe.listed ELSE enumeration.list

\* "except (psutil.AccessDenied, PermissionError): connections_list = []"
ConnectionsList(enumeration) ==
    IF enumeration.denied THEN {} ELSE enumeration.list

\* "if not conn.raddr: continue"
TrackedWithListeners(connections_list) == connections_list

Tracked(connections_list) == {conn \in connections_list : conn.raddr # NoAddr}

\* self.process_bandwidth.get(pid, {'upload': 0, 'download': 0})
ProcBw(table, pid) ==
    IF pid \in DOMAIN table THEN table[pid] ELSE [upload |-> Zero, download |-> Zero]

\* start_time of the record built for conn_id (lines 229-265).
StartTimeReset(conn_id, t) == t

StartTimeRemembered(conn_id, t) ==
    IF conn_id \in DOMAIN connections THEN connections[conn_id].start_time
    ELSE IF conn_id \in DOMAIN first_seen THEN first_seen[conn_id]
    ELSE t

StartTimeOf(conn_id, t) ==
    IF conn_id \in DOMAIN connections THEN connections[conn_id].start_time ELSE t

\* The dict built for one enumerated connection; t is time.time() in the loop.
ConnectionRecord(conn, table, t) ==
    LET conn_id == GetConnectionId(conn)
        pid == IF conn.pid # None /\ conn.pid # 0 THEN conn.pid ELSE 0
        proc_bw == ProcBw(table, pid)
    IN  [id |-> conn_id,
         local_addr |-> FormatAddr(conn.laddr),
         remote_addr |-> FormatAddr(conn.raddr),
         protocol |-> conn.type,
         state |-> conn.status,
         process_name |-> GetProcessName(conn.pid),
         pid |-> pid,
         upload_speed |-> proc_bw.upload,
         download_speed |-> proc_bw.download,
         duration |-> IF conn_id \in DOMAIN connections
                      THEN t - connections[conn_id].start_time ELSE 0,
         bytes_sent |-> 0,
         bytes_received |-> 0,
         start_time |-> StartTimeOf(conn_id, t)]

\* current_connections after the loop over connections_list.
CurrentConnections(connections_list, table, t) ==
    LET tracked == Tracked(connections_list)
    IN  [conn_id \in {GetConnectionId(conn) : conn \in tracked} |->
            ConnectionRecord(CHOOSE conn \in tracked : GetConnectionId(conn) = conn_id,
                             table, t)]

----------------------------------------------------------------------------
\* Read accessors and the snapshot update() returns.

RECURSIVE SumOver(_, _, _)
SumOver(table, pids, field) ==
    IF pids = {} THEN Zero
    ELSE LET pid == CHOOSE p \in pids : TRUE
         IN  AddRate(table[pid][field], SumOver(table, pids \ {pid}, field))

\* sum(bw[field] for bw in table.values())
SumRates(table, field) == SumOver(table, DOMAIN table, field)

\* list(table.values()), without its order
Values(table) == {table[k] : k \in DOMAIN table}

Stats(table, conns, sent, received, t) ==
    [total_upload_speed |-> SumRates(table, "upload"),
     total_download_speed |-> SumRates(table, "download"),
     active_connections |-> Cardinality(DOMAIN conns),
     total_bytes_sent |-> sent,
     total_bytes_received |-> received,
     uptime |-> t - start_time]

GetConnections == Values(connections)

GetStats == Stats(process_bandwidth, connections, total_bytes_sent,
                  total_bytes_received, now)

\* BandwidthPoint.to_dict: asdict of the dataclass.
ToDict(point) ==
    [timestamp |-> point.timestamp, upload |-> point.upload, download |-> point.download]

GetBandwidthHistory == [i \in 1..Len(bandwidth_history) |-> ToDict(bandwidth_history[i])]

----------------------------------------------------------------------------
\* The engine's operations.

\* Values time.time() may return after it returned t.
TimeAfter(t, clock) == {u \in t..clock.max : u - t <= clock.step}

CounterSamples(bytes) == [bytes_sent : bytes, bytes_recv : bytes]

NoProbe == [nettop |-> "none", denied |-> FALSE, listed |-> {}, regressed |-> {}]

\* A stats dict of zeros, for the results of the other accessors.
NoStats == Stats(EmptyDict, EmptyDict, 0, 0, start_time)

\* No accessor has been called yet.
NoResult == [op |-> "none", seq |-> 0, connections |-> {}, stats |-> NoStats,
             history |-> << >>]

\* No handler has received anything yet.
NoEvent == [client |-> None, kind |-> "none", seq |-> 0]

\* The coroutines of main.py: monitor_network and one websocket_endpoint per
\* client.
Loop == 0

Coroutines == {Loop} \cup Clients

\* What caller holds when a websocket_endpoint coroutine called update().
Handler == "websocket_endpoint"

\* NetworkMonitor.__init__ up to line 63, and the module state of main.py
\* (lines 17-23) before the event loop runs anything.
Init ==
    /\ bandwidth_history = << >>
    /\ connections = EmptyDict
    /\ previous_io_counters = NoCounters
    /\ previous_time = None
    /\ start_time = 0
    /\ total_bytes_sent = 0
    /\ total_bytes_received = 0
    /\ process_bandwidth = EmptyDict
    /\ previous_process_counters = EmptyDict
    /\ previous_nettop_time = None
    /\ now = 0
    /\ update_calls = 0
    /\ points_appended = 0
    /\ data = EmptyDict
    /\ probe = NoProbe
    /\ ever_seen = {}
    /\ first_seen = EmptyDict
    /\ result = NoResult
    /\ active_connections = {}
    /\ pc = "tick"
    /\ connection = None
    /\ iter_used = 0
    /\ iter_remaining = {}
    /\ disconnected = {}
    /\ attempts = [c \in Clients |-> 0]
    /\ live_at_start = {}
    /\ dropped = {}
    /\ ws = [c \in Clients |-> "new"]
    /\ sent_log = [c \in Clients |-> << >>]
    /\ caller = "none"
    /\ rearmed = FALSE
    /\ last_received = NoEvent
    /\ in_update = [who \in Coroutines |-> 0]
    /\ running = None

Constructed == previous_time # None

\* The last statement of __init__ (line 66): the first counter sample.
ConstructWith(samples, clock) ==
    /\ ~Constructed
    /\ \E current_counters \in samples, t \in TimeAfter(now, clock) :
          /\ UpdateIoCounters(current_counters, t)
          /\ now' = t
    /\ UNCHANGED <<connections, start_time, process_bandwidth,
                   previous_process_counters, previous_nettop_time,
                   update_calls, data, probe, ever_seen>>

\* The pids of a sample used for rates whose bytes_in or bytes_out is lower than
\* in the previous sample.
Regressed(nettop, current_time) ==
    IF nettop.kind = "ok" /\ HasProcessBaseline(current_time)
    THEN {pid \in DOMAIN nettop.counters \cap DOMAIN previous_process_counters :
            \/ nettop.counters[pid].bytes_in < previous_process_counters[pid].bytes_in
            \/ nettop.counters[pid].bytes_out < previous_process_counters[pid].bytes_out}
    ELSE {}

\* NetworkMonitor.update() with the samplers' results: counters read at t1,
\* nettop started at t2, the connection loop and the snapshot at t3.
EngineUpdate(current_counters, t1, nettop, t2, enumeration, t3) ==
    /\ Constructed
    /\ UpdateIoCounters(current_counters, t1)
    /\ UpdateProcessBandwidth(nettop, t2)
    /\ connections' = CurrentConnections(ConnectionsList(enumeration),
                                         process_bandwidth', t3)
    /\ data' = [connections |-> Values(connections'),
                stats |-> Stats(process_bandwidth', connections', total_bytes_sent',
                                total_bytes_received', t3)]
    /\ now' = t3
    /\ update_calls' = IF update_calls < 2 THEN update_calls + 1 ELSE 2
    /\ probe' = [nettop |-> nettop.kind, denied |-> enumeration.denied,
                 listed |-> enumeration.list,
                 regressed |-> Regressed(nettop, t2)]
    /\ ever_seen' = ever_seen \cup DOMAIN connections'
    /\ UNCHANGED start_time

\* update() with its inputs drawn from the given sets.
UpdateWith(samples, nettops, enumerations, clock) ==
    \E current_counters \in samples, nettop \in nettops, enumeration \in enumerations :
       \E t1 \in TimeAfter(now, clock) :
          \E t2 \in {u \in TimeAfter(now, clock) : u >= t1} :
             \E t3 \in {u \in TimeAfter(now, clock) : u >= t2} :
                EngineUpdate(current_counters, t1, nettop, t2, enumeration, t3)

\* update() raising out of a sampler it does not guard: psutil.net_io_counters
\* (line 70, nothing stored yet), or psutil.net_connections with an error
\* other than AccessDenied and PermissionError (line 210, the counters and
\* the per-process rates of this call stored, the table not).
UpdateRaisesWith(samples, nettops, clock) ==
    /\ Constructed
    /\ \/ UNCHANGED <<engineVars, observeVars>>
       \/ \E current_counters \in samples, nettop \in nettops :
             \E t1 \in TimeAfter(now, clock) :
                \E t2 \in {u \in TimeAfter(now, clock) : u >= t1} :
                   /\ UpdateIoCounters(current_counters, t1)
                   /\ UpdateProcessBandwidth(nettop, t2)
                   /\ now' = t2
                   /\ UNCHANGED <<connections, start_time, update_calls, data, probe,
                                  ever_seen>>

----------------------------------------------------------------------------
\* The engine alone: a caller that constructs the monitor and calls update()
\* again and again.  Each specification varies the samplers its properties
\* are about and holds the others to one or two results.

TcpSocket == CHOOSE s \in Sockets : s.pid = 1 /\ s.raddr # NoAddr

\* The aggregate counters varied, on a host without nettop (FileNotFoundError).
Construct ==
    /\ ConstructWith(CounterSamples(Bytes), HistoryClock)
    /\ UNCHANGED <<first_seen, result, mainVars>>

Update ==
    /\ UpdateWith(CounterSamples(Bytes), NettopRaised, {Denied} \cup Enumerations({}),
                  HistoryClock)
    /\ UNCHANGED <<first_seen, result, mainVars>>

Next == Construct \/ Update

Spec == Init /\ [][Next]_vars

\* The connection enumeration varied.
ConstructC ==
    /\ ConstructWith(CounterSamples({0}), ShortClock)
    /\ UNCHANGED <<first_seen, result, mainVars>>

\* The time each identity first entered the table, kept across its absences.
FirstSeenAfterUpdate ==
    [id \in DOMAIN first_seen \cup DOMAIN connections' |->
        IF id \in DOMAIN first_seen THEN first_seen[id] ELSE now']

UpdateC ==
    /\ UpdateWith([bytes_sent : Bytes, bytes_recv : {0}], NettopRaised,
                  {Denied} \cup Enumerations(Sockets), ShortClock)
    /\ first_seen' = FirstSeenAfterUpdate
    /\ UNCHANGED <<result, mainVars>>

NextC == ConstructC \/ UpdateC

SpecC == Init /\ [][NextC]_vars

\* The per-process sampler varied.
ConstructP ==
    /\ ConstructWith(CounterSamples({0}), ShortClock)
    /\ UNCHANGED <<first_seen, result, mainVars>>

UpdateP ==
    /\ UpdateWith(CounterSamples({0}), NettopFailed \cup NettopOk,
                  Enumerations({TcpSocket}), ShortClock)
    /\ UNCHANGED <<first_seen, result, mainVars>>

NextP == ConstructP \/ UpdateP

SpecP == Init /\ [][NextP]_vars

\* The read accessors, called by the REST handlers of main.py (lines 118-143).
Accessors == {"get_connections", "get_stats", "get_bandwidth_history"}

\* What accessor op returns when its time.time() gives t; seq tells one call
\* from the next.
Returned(op, t) ==
    [op |-> op,
     seq |-> 1 - result.seq,
     connections |-> IF op = "get_connections" THEN GetConnections ELSE {},
     stats |-> IF op = "get_stats"
               THEN Stats(process_bandwidth, connections, total_bytes_sent,
                          total_bytes_received, t)
               ELSE NoStats,
     history |-> IF op = "get_bandwidth_history" THEN GetBandwidthHistory ELSE << >>]

ReadLeavesEngineCleared == connections' = EmptyDict

\* Lines 286-307 assign no field of the monitor.
ReadLeavesEngine == connections' = connections

ReadWith(clock) ==
    /\ Constructed
    /\ \E op \in Accessors, t \in TimeAfter(now, clock) :
          /\ result' = Returned(op, t)
          /\ now' = IF op = "get_stats" THEN t ELSE now
    /\ ReadLeavesEngine
    /\ UNCHANGED <<bandwidth_history, previous_io_counters, previous_time, start_time,
                   total_bytes_sent, total_bytes_received, process_bandwidth,
                   previous_process_counters, previous_nettop_time, update_calls,
                   points_appended, data, probe, ever_seen, first_seen, mainVars>>

\* The engine with its accessors called between the updates.
ConstructR ==
    /\ ConstructWith(CounterSamples({0}), ShortClock)
    /\ UNCHANGED <<first_seen, result, mainVars>>

UpdateR ==
    /\ UpdateWith(CounterSamples({0}), NettopRaised, {Denied} \cup Enumerations(Sockets),
                  ShortClock)
    /\ UNCHANGED <<first_seen, result, mainVars>>

ReadR == ReadWith(ShortClock)

NextR == ConstructR \/ UpdateR \/ ReadR

SpecR == Init /\ [][NextR]_vars

----------------------------------------------------------------------------
\* main.py.  monitor_network and the websocket_endpoint coroutines run on one
\* event loop: each action below is the code a coroutine runs between two
\* awaits.
\*
\* pc: "tick" at the top of the while loop, "send" inside
\* "await connection.send_text(message)", "sleep" inside the sleep of line
\* 52, "sleep_error" inside the sleep of line 55, "stopped" after the task
\* was cancelled.
\* ws[c]: "new" before accept() returns, "initial" inside the send of the
\* initial message, "receiving" inside wait_for(receive_text()), "pong"
\* inside the send of the pong, "closed" after the finally block.
\*
\* The set iterator of the for loop remembers the size of the set
\* (iter_used); every fetch of the next member raises RuntimeError when the
\* size differs, and otherwise yields a member it has not passed yet
\* (iter_remaining).  A member added during the loop lands before or after
\* the iterator's position.

EngineUpdateB ==
    UpdateWith(CounterSamples({0}), NettopRaised, {Denied}, FrozenClock)

EngineUpdateRaisesB ==
    UpdateRaisesWith(CounterSamples({0}), NettopRaised, FrozenClock)

\* json.dumps({'type': ..., 'data': data}): the tag of a snapshot message.
InitialMessageTaggedUpdate == "update"

InitialMessageTag == "initial"

UpdateMessageTag == "update"

\* The tags of the snapshot messages handed to send_text for one client, in
\* call order; an 'update' that follows an 'update' is not written again.
LogSend(log, tag) ==
    IF tag = UpdateMessageTag /\ log # << >> /\ log[Len(log)] = UpdateMessageTag
    THEN log
    ELSE Append(log, tag)

\* Where "except Exception" (lines 53-55) puts the loop when the try body
\* raises: in the sleep of line 55.
ErrorUncaught == "crashed"

ErrorHandled == "sleep_error"

\* "for connection in active_connections": fetch the next member after the
\* send to the previous one ended with the failed set disc.
IterNext(disc) ==
    IF Cardinality(active_connections) # iter_used
    THEN \* RuntimeError: Set changed size during iteration -> line 53
         /\ pc' = ErrorHandled
         /\ disconnected' = disc
         /\ dropped' = dropped \cup disc
         /\ UNCHANGED <<active_connections, connection, iter_remaining, attempts,
                      sent_log>>
    ELSE IF iter_remaining = {}
    THEN \* the loop is over: line 49
         /\ active_connections' = active_connections \ disc
         /\ pc' = "sleep"
         /\ disconnected' = disc
         /\ dropped' = dropped \cup disc
         /\ UNCHANGED <<connection, iter_remaining, attempts, sent_log>>
    ELSE \E next \in iter_remaining :
         /\ connection' = next
         /\ iter_remaining' = iter_remaining \ {next}
         /\ attempts' = [attempts EXCEPT ![next] = @ + 1]
         /\ sent_log' = [sent_log EXCEPT ![next] = LogSend(@, UpdateMessageTag)]
         /\ pc' = "send"
         /\ disconnected' = disc
         /\ UNCHANGED <<active_connections, dropped>>

\* Lines 34-44, after update() returned: the publish loop up to its first
\* send, or straight to the sleep of line 52 when nobody is subscribed.
PublishStart ==
    IF active_connections = {}
    THEN /\ pc' = "sleep"
         /\ attempts' = [c \in Clients |-> 0]
         /\ live_at_start' = {}
         /\ UNCHANGED <<active_connections, connection, iter_used, iter_remaining,
                        disconnected, dropped, sent_log>>
    ELSE \E first \in active_connections :
         /\ disconnected' = {}
         /\ iter_used' = Cardinality(active_connections)
         /\ connection' = first
         /\ iter_remaining' = active_connections \ {first}
         /\ attempts' = [c \in Clients |-> IF c = first THEN 1 ELSE 0]
         /\ sent_log' = [sent_log EXCEPT ![first] = LogSend(@, UpdateMessageTag)]
         /\ live_at_start' = active_connections
         /\ pc' = "send"
         /\ UNCHANGED <<active_connections, dropped>>

\* Lines 31-44: one update(), then the publish loop up to its first send.
MonitorTickWith(update) ==
    /\ pc = "tick"
    /\ update
    /\ PublishStart
    /\ caller' = "monitor_network"
    /\ UNCHANGED <<ws, rearmed, last_received, first_seen, result, schedVars>>

MonitorTick == MonitorTickWith(EngineUpdateB)

\* Lines 31 and 53-55: update() raises; the error is printed and the loop
\* sleeps.
MonitorTickRaises ==
    /\ pc = "tick"
    /\ EngineUpdateRaisesB
    /\ pc' = ErrorHandled
    /\ attempts' = [c \in Clients |-> 0]
    /\ live_at_start' = {}
    /\ caller' = "monitor_network"
    /\ UNCHANGED <<active_connections, connection, iter_used, iter_remaining,
                   disconnected, dropped, ws, sent_log, rearmed, last_received,
                   first_seen, result, schedVars>>

\* Lines 44-49: the awaited send returns or raises; the loop goes on.
SendDone ==
    /\ pc = "send"
    /\ \E ok \in BOOLEAN :
          /\ ws[connection] = "closed" => ~ok
          /\ IterNext(IF ok THEN disconnected ELSE disconnected \cup {connection})
    /\ UNCHANGED <<engineVars, observeVars, iter_used, live_at_start, ws, caller,
                   rearmed, last_received, first_seen, result, schedVars>>

\* Lines 52 and 55: the sleep is over.
SleepDone ==
    /\ pc \in {"sleep", "sleep_error"}
    /\ pc' = "tick"
    /\ rearmed' = (pc = "sleep_error")
    /\ UNCHANGED <<engineVars, observeVars, active_connections, connection, iter_used,
                   iter_remaining, disconnected, attempts, live_at_start, dropped, ws,
                   sent_log, caller, last_received, first_seen, result, schedVars>>

\* lifespan, lines 68-74: monitoring_task.cancel() and the await of the task.
\* CancelledError is raised at the await the loop is suspended in; it is not
\* an Exception, so neither "except Exception" catches it and the task ends
\* there.
Shutdown ==
    /\ Constructed
    /\ pc \in {"tick", "send", "sleep", "sleep_error"}
    /\ pc' = "stopped"
    /\ UNCHANGED <<engineVars, observeVars, active_connections, connection, iter_used,
                   iter_remaining, disconnected, attempts, live_at_start, dropped, ws,
                   traceVars, first_seen, result, schedVars>>

\* active_connections.add(websocket) while the publish loop may be suspended.
SetAdd(c) ==
    /\ active_connections' = active_connections \cup {c}
    /\ \/ iter_remaining' = iter_remaining
       \/ pc = "send" /\ iter_remaining' = iter_remaining \cup {c}

SetDiscardForgotten(c) ==
    UNCHANGED <<active_connections, iter_remaining>>

\* active_connections.discard(websocket)
SetDiscard(c) ==
    /\ active_connections' = active_connections \ {c}
    /\ iter_remaining' = iter_remaining \ {c}

\* Lines 152-160: accept() returns, the client joins the set, update() runs and
\* the send of the initial message starts.  The server hands no new
\* connection to the application once the lifespan's shutdown part has run.
WsConnectWith(c, update) ==
    /\ Constructed
    /\ pc # "stopped"
    /\ ws[c] = "new"
    /\ SetAdd(c)
    /\ update
    /\ ws' = [ws EXCEPT ![c] = "initial"]
    /\ sent_log' = [sent_log EXCEPT ![c] = LogSend(@, InitialMessageTag)]
    /\ caller' = Handler
    /\ UNCHANGED <<pc, connection, iter_used, disconnected, attempts, live_at_start,
                   dropped, rearmed, last_received, first_seen, result, schedVars>>

WsConnect(c) == WsConnectWith(c, EngineUpdateB)

\* Lines 152-159 and 185-189: update() raises in the handler; nothing is sent
\* and the finally block takes the client out of the set it had just joined.
WsConnectRaises(c) ==
    /\ pc # "stopped"
    /\ ws[c] = "new"
    /\ EngineUpdateRaisesB
    /\ ws' = [ws EXCEPT ![c] = "closed"]
    /\ caller' = Handler
    /\ UNCHANGED <<loopVars, sent_log, rearmed, last_received, first_seen, result,
                   schedVars>>

\* Lines 160-166 and 183-188: the send of the initial message returns, or
\* raises and the finally block runs.
WsInitialDone(c) ==
    /\ ws[c] = "initial"
    /\ \/ /\ ws' = [ws EXCEPT ![c] = "receiving"]
          /\ UNCHANGED <<active_connections, iter_remaining>>
       \/ /\ ws' = [ws EXCEPT ![c] = "closed"]
          /\ SetDiscard(c)
    /\ UNCHANGED <<engineVars, observeVars, pc, connection, iter_used, disconnected,
                   attempts, live_at_start, dropped, traceVars, first_seen, result,
                   schedVars>>

\* update() of a monitor whose sent counter moves.
EngineUpdateE ==
    UpdateWith([bytes_sent : Bytes, bytes_recv : {0}], NettopRaised, {Denied},
               FrozenClock)

ReceiveLoopEngineUpdated == EngineUpdateE

\* Lines 166-181: the receive loop calls nothing of the monitor.
ReceiveLoopEngine == UNCHANGED <<engineVars, observeVars>>

\* Lines 169-181: what wait_for(receive_text()) gives.  "timeout": TimeoutError,
\* continue.  "ping": a JSON object of type ping, the pong is sent.  "other":
\* another JSON object.  "garbage": text json.loads or data.get raises on.
\* "disconnect": WebSocketDisconnect.
ReceiveEvents == {"timeout", "ping", "other", "garbage", "disconnect"}

WsReceiveEvent(c, event) ==
    /\ ws[c] = "receiving"
    /\ \/ /\ event \in {"timeout", "other"}
          /\ UNCHANGED <<ws, active_connections, iter_remaining>>
       \/ /\ event = "ping"
          /\ ws' = [ws EXCEPT ![c] = "pong"]
          /\ UNCHANGED <<active_connections, iter_remaining>>
       \/ /\ event \in {"garbage", "disconnect"}
          /\ ws' = [ws EXCEPT ![c] = "closed"]
          /\ SetDiscard(c)
    /\ ReceiveLoopEngine
    /\ UNCHANGED <<pc, connection, iter_used, disconnected, attempts, live_at_start,
                   dropped, sent_log, caller, rearmed, first_seen, result, schedVars>>

WsReceive(c) ==
    \E event \in ReceiveEvents : WsReceiveEvent(c, event) /\ UNCHANGED last_received

\* The same, with what was received written down.
WsReceiveLogged(c) ==
    \E event \in ReceiveEvents :
       /\ WsReceiveEvent(c, event)
       /\ last_received' = [client |-> c, kind |-> event, seq |-> 1 - last_received.seq]

\* Line 173 and 177-181: the send of the pong returns, or raises, which ends
\* the handler.
WsPongDone(c) ==
    /\ ws[c] = "pong"
    /\ \/ /\ ws' = [ws EXCEPT ![c] = "receiving"]
          /\ UNCHANGED <<active_connections, iter_remaining>>
       \/ /\ ws' = [ws EXCEPT ![c] = "closed"]
          /\ SetDiscard(c)
    /\ UNCHANGED <<engineVars, observeVars, pc, connection, iter_used, disconnected,
                   attempts, live_at_start, dropped, traceVars, first_seen, result,
                   schedVars>>

\* GET /health, lines 108-115: the subscriber count it reports.
HealthActiveConnections == Cardinality(active_connections)

ConstructB ==
    /\ ConstructWith(CounterSamples({0}), FrozenClock)
    /\ UNCHANGED <<first_seen, result, mainVars>>

Connect == \E c \in Clients : WsConnect(c)

ConnectRaises == \E c \in Clients : WsConnectRaises(c)

InitialDone == \E c \in Clients : WsInitialDone(c)

Receive == \E c \in Clients : WsReceive(c)

PongDone == \E c \in Clients : WsPongDone(c)

NextB ==
    \/ ConstructB
    \/ MonitorTick
    \/ MonitorTickRaises
    \/ SendDone
    \/ SleepDone
    \/ Shutdown
    \/ Connect
    \/ ConnectRaises
    \/ InitialDone
    \/ Receive
    \/ PongDone

SpecB == Init /\ [][NextB]_vars

\* The same service with fewer clients, for the properties that hold of it.
Subscribers == 1..MaxSubscribers

FewSubscribers == 1..MaxFewSubscribers

ConnectS == \E c \in Subscribers : WsConnect(c)

ConnectRaisesS == \E c \in Subscribers : WsConnectRaises(c)

NextS ==
    \/ ConstructB
    \/ MonitorTick
    \/ MonitorTickRaises
    \/ SendDone
    \/ SleepDone
    \/ Shutdown
    \/ ConnectS
    \/ ConnectRaisesS
    \/ InitialDone
    \/ Receive
    \/ PongDone

SpecS == Init /\ [][NextS]_vars

ConnectF == \E c \in FewSubscribers : WsConnect(c)

ConnectRaisesF == \E c \in FewSubscribers : WsConnectRaises(c)

\* The service with a monitor whose counters move, and with the REST handlers
\* that call the read accessors.
MonitorTickE == MonitorTickWith(EngineUpdateE)

ConnectE == \E c \in FewSubscribers : WsConnectWith(c, EngineUpdateE)

ReadE == ReadWith(FrozenClock)

NextE ==
    \/ ConstructB
    \/ MonitorTickE
    \/ SendDone
    \/ SleepDone
    \/ ConnectE
    \/ InitialDone
    \/ Receive
    \/ PongDone
    \/ ReadE

SpecE == Init /\ [][NextE]_vars

\* The service with update() taken statement by statement.  A coroutine runs
\* from one await to the next without giving up the event loop: running is
\* the coroutine that holds it, None between two such runs.  in_update[who]
\* is 0 outside update(), 1 after _update_io_counters (line 202), 2 after
\* _update_process_bandwidth (line 205).
AtUpdateCall(who) ==
    IF who = Loop THEN pc = "tick" ELSE pc # "stopped" /\ ws[who] = "new"

AfterNettopAwaited(who) == None

\* subprocess.run (line 124) blocks the thread until nettop has ended: the
\* caller of update() keeps the event loop.
AfterNettop(who) == who

\* Lines 31 or 153-159, and 202: the call of update() and its first statement.
UpdateEnter(who) ==
    /\ Constructed
    /\ running = None
    /\ in_update[who] = 0
    /\ AtUpdateCall(who)
    /\ IF who = Loop
       THEN UNCHANGED <<active_connections, iter_remaining>>
       ELSE SetAdd(who)
    /\ \E current_counters \in CounterSamples({0}), t \in TimeAfter(now, FrozenClock) :
          /\ UpdateIoCounters(current_counters, t)
          /\ now' = t
    /\ in_update' = [in_update EXCEPT ![who] = 1]
    /\ running' = who
    /\ UNCHANGED <<connections, start_time, process_bandwidth, previous_process_counters,
                   previous_nettop_time, update_calls, data, probe, ever_seen,
                   first_seen, result, pc, connection, iter_used, disconnected,
                   attempts, live_at_start, dropped, ws, traceVars>>

\* Line 205: _update_process_bandwidth.
UpdateNettop(who) ==
    /\ in_update[who] = 1
    /\ running \in {who, None}
    /\ \E nettop \in NettopRaised, t \in TimeAfter(now, FrozenClock) :
          /\ UpdateProcessBandwidth(nettop, t)
          /\ probe' = [probe EXCEPT !.nettop = nettop.kind,
                                    !.regressed = Regressed(nettop, t)]
          /\ now' = t
    /\ in_update' = [in_update EXCEPT ![who] = 2]
    /\ running' = AfterNettop(who)
    /\ UNCHANGED <<bandwidth_history, connections, previous_io_counters, previous_time,
                   start_time, total_bytes_sent, total_bytes_received, update_calls,
                   points_appended, data, ever_seen, first_seen, result, loopVars, ws,
                   traceVars>>

\* Lines 207-284: the enumeration, the new table and the returned dict; then
\* the caller goes on to its next await, the first send of the publish loop
\* or the send of the initial message.
UpdateReturn(who) ==
    /\ in_update[who] = 2
    /\ running \in {who, None}
    /\ \E enumeration \in {Denied}, t \in TimeAfter(now, FrozenClock) :
          /\ connections' = CurrentConnections(ConnectionsList(enumeration),
                                               process_bandwidth, t)
          /\ data' = [connections |-> Values(connections'),
                      stats |-> Stats(process_bandwidth, connections', total_bytes_sent,
                                      total_bytes_received, t)]
          /\ probe' = [probe EXCEPT !.denied = enumeration.denied,
                                    !.listed = enumeration.list]
          /\ now' = t
    /\ update_calls' = IF update_calls < 2 THEN update_calls + 1 ELSE 2
    /\ ever_seen' = ever_seen \cup DOMAIN connections'
    /\ in_update' = [in_update EXCEPT ![who] = 0]
    /\ running' = None
    /\ IF who = Loop
       THEN /\ PublishStart
            /\ caller' = "monitor_network"
            /\ UNCHANGED <<ws, rearmed, last_received>>
       ELSE /\ ws' = [ws EXCEPT ![who] = "initial"]
            /\ sent_log' = [sent_log EXCEPT ![who] = LogSend(@, InitialMessageTag)]
            /\ caller' = Handler
            /\ UNCHANGED <<loopVars, rearmed, last_received>>
    /\ UNCHANGED <<bandwidth_history, previous_io_counters, previous_time, start_time,
                   total_bytes_sent, total_bytes_received, process_bandwidth,
                   previous_process_counters, previous_nettop_time, points_appended,
                   first_seen, result>>

\* No coroutine holds the event loop: another one can be resumed.
Idle == running = None

EnterU == \E who \in {Loop} \cup FewSubscribers : UpdateEnter(who)

NettopU == \E who \in Coroutines : UpdateNettop(who)

ReturnU == \E who \in Coroutines : UpdateReturn(who)

SendDoneU == Idle /\ SendDone

SleepDoneU == Idle /\ SleepDone

InitialDoneU == Idle /\ InitialDone

ReceiveU == Idle /\ Receive

PongDoneU == Idle /\ PongDone

ReadU == Idle /\ ReadWith(FrozenClock)

NextU ==
    \/ ConstructB
    \/ EnterU
    \/ NettopU
    \/ ReturnU
    \/ SendDoneU
    \/ SleepDoneU
    \/ InitialDoneU
    \/ ReceiveU
    \/ PongDoneU
    \/ ReadU

SpecU == Init /\ [][NextU]_vars

\* The service with what the handlers receive written down.
ReceiveH == \E c \in Clients : WsReceiveLogged(c)

NextH ==
    \/ ConstructB
    \/ MonitorTick
    \/ MonitorTickRaises
    \/ SendDone
    \/ SleepDone
    \/ Shutdown
    \/ ConnectF
    \/ ConnectRaisesF
    \/ InitialDone
    \/ ReceiveH
    \/ PongDone

SpecH == Init /\ [][NextH]_vars

\* The service with fairness.  The import of main.py constructs the monitor
\* (line 17); the event loop resumes monitor_network when the sleep it awaits
\* is over, and the resumed coroutine runs its update().  Nothing is assumed
\* of the sends: a send may stay pending for ever.
NextF ==
    \/ ConstructB
    \/ MonitorTick
    \/ MonitorTickRaises
    \/ SendDone
    \/ SleepDone
    \/ Shutdown
    \/ ConnectF
    \/ ConnectRaisesF
    \/ InitialDone
    \/ Receive
    \/ PongDone

FairSpec ==
    /\ Init
    /\ [][NextF]_vars
    /\ WF_vars(ConstructB)
    /\ WF_vars(SleepDone)
    /\ WF_vars(MonitorTick \/ MonitorTickRaises)

----------------------------------------------------------------------------
\* Properties of the bandwidth history (checked under Spec).

Last(q) == q[Len(q)]

\* C1: the history buffer never holds more than HistoryLength points, and
\* every append puts the new point at the right end and, when the buffer is
\* full, drops exactly the leftmost (oldest) point, so that the buffer is
\* always the most recent min(HistoryLength, k) of the k points appended,
\* oldest first.
C1_HistoryBoundedFifo ==
    /\ [](/\ Len(bandwidth_history) <= HistoryLength
          /\ Len(bandwidth_history) =
                (IF points_appended < HistoryLength THEN points_appended
                 ELSE HistoryLength)
          /\ \A i \in 1..Len(bandwidth_history) - 1 :
                bandwidth_history[i].timestamp < bandwidth_history[i + 1].timestamp)
    /\ [][IF points_appended' = points_appended
          THEN bandwidth_history' = bandwidth_history
          ELSE /\ points_appended' = points_appended + 1
               /\ bandwidth_history' # << >>
               /\ Last(bandwidth_history').timestamp = previous_time'
               /\ bandwidth_history' =
                     (IF Len(bandwidth_history) < HistoryLength
                      THEN Append(bandwidth_history, Last(bandwidth_history'))
                      ELSE Append(Tail(bandwidth_history), Last(bandwidth_history')))
         ]_vars

\* A full buffer that has already dropped a point.
C1_Witness ==
    /\ Len(bandwidth_history) = HistoryLength
    /\ points_appended > HistoryLength

\* C2: every point in the history has upload >= 0 and download >= 0.
C2_HistoryRatesNonNegative ==
    \A i \in 1..Len(bandwidth_history) :
        /\ NonNegative(bandwidth_history[i].upload)
        /\ NonNegative(bandwidth_history[i].download)

\* C3 as stated: the first call of update() appends no point to the history.
C3_FirstTickAppendsNothing ==
    update_calls = 1 => /\ points_appended = 0
                        /\ bandwidth_history = << >>

\* C3 as amended: the sample taken by the constructor appends no point; every
\* later sample, the one of the first update() included, appends exactly one
\* point when the time since the previous sample is > 0, with upload and
\* download equal to (current counter - previous counter) / elapsed, and
\* appends none when no time has passed.
C3_PointPerSampleAfterConstruction ==
    [][IF ~Constructed
       THEN /\ bandwidth_history' = << >>
            /\ points_appended' = 0
       ELSE IF previous_time' - previous_time > 0
       THEN /\ points_appended' = points_appended + 1
            /\ bandwidth_history' # << >>
            /\ Last(bandwidth_history') =
                  BandwidthPoint(previous_time',
                                 Div(total_bytes_sent' - total_bytes_sent,
                                     previous_time' - previous_time),
                                 Div(total_bytes_received' - total_bytes_received,
                                     previous_time' - previous_time))
       ELSE /\ points_appended' = points_appended
            /\ bandwidth_history' = bandwidth_history
      ]_vars

\* The first update() has appended a point.
C3_Witness ==
    /\ update_calls = 1
    /\ points_appended = 1
    /\ Len(bandwidth_history) = 1
    /\ bandwidth_history[1].upload.num # 0

----------------------------------------------------------------------------
\* Properties of the connection table (checked under SpecC).

\* The identities of the sockets the last update() enumerated that have a
\* remote endpoint; none when the enumeration was denied.
EnumeratedIds ==
    IF probe.denied THEN {}
    ELSE {<<s.type, s.laddr, s.raddr, s.pid>> : s \in {x \in probe.listed : x.raddr # NoAddr}}

C8_DeniedTickCompletes ==
    /\ [](probe.denied => ENABLED UpdateC)
    /\ [][probe'.denied =>
             /\ connections' = EmptyDict
             /\ GetConnections' = {}
             /\ data'.connections = {}
             /\ data'.stats.active_connections = 0
             /\ data'.stats.total_bytes_sent = previous_io_counters'.bytes_sent
             /\ total_bytes_sent' = previous_io_counters'.bytes_sent
             /\ total_bytes_received' = previous_io_counters'.bytes_recv
             /\ (previous_time' > previous_time =>
                    /\ points_appended' = points_appended + 1
                    /\ Last(bandwidth_history').timestamp = previous_time'
                    /\ Last(bandwidth_history').upload =
                          Div(total_bytes_sent' - total_bytes_sent,
                              previous_time' - previous_time))
         ]_vars

\* A denied tick that emptied a table and appended a history point.
C8_Witness ==
    /\ probe.denied
    /\ update_calls = 2
    /\ ever_seen # {}
    /\ connections = EmptyDict
    /\ bandwidth_history # << >>
    /\ Last(bandwidth_history).timestamp = previous_time
    /\ Last(bandwidth_history).upload.num # 0

----------------------------------------------------------------------------
\* Properties of the per-process rates (checked under SpecP).

\* C6: every entry of process_bandwidth has upload >= 0 and download >= 0.
C6_ProcessRatesNonNegative ==
    \A pid \in DOMAIN process_bandwidth :
        /\ NonNegative(process_bandwidth[pid].upload)
        /\ NonNegative(process_bandwidth[pid].download)

\* A rate computed from a counter that went down.
C6_Witness ==
    \E pid \in probe.regressed :
        /\ pid \in DOMAIN process_bandwidth
        /\ \/ process_bandwidth[pid].upload.num = 0
           \/ process_bandwidth[pid].download.num = 0

\* C7: a tick in which nettop fails leaves process_bandwidth as it was, and the
\* snapshot it returns takes the connections' rates and the total rates from
\* that retained table.
C7_FailedSamplerKeepsRates ==
    [][probe'.nettop \in {"nonzero", "raised"} =>
          /\ process_bandwidth' = process_bandwidth
          /\ previous_process_counters' = previous_process_counters
          /\ data'.stats.total_upload_speed = SumRates(process_bandwidth, "upload")
          /\ data'.stats.total_download_speed = SumRates(process_bandwidth, "download")
          /\ data'.connections = GetConnections'
          /\ \A r \in data'.connections :
                /\ r.upload_speed = ProcBw(process_bandwidth, r.pid).upload
                /\ r.download_speed = ProcBw(process_bandwidth, r.pid).download
      ]_vars

\* A tick with a failed sampler that reports a rate computed earlier.
C7_Witness ==
    /\ probe.nettop \in {"nonzero", "raised"}
    /\ 1 \in DOMAIN process_bandwidth
    /\ process_bandwidth[1].upload.num > 0
    /\ data.stats.total_upload_speed.num > 0
    /\ \E r \in data.connections : r.pid = 1 /\ r.upload_speed.num > 0

----------------------------------------------------------------------------
\* Properties of the broadcast loop (checked under SpecB).

PublishEnded == pc \in {"sleep", "sleep_error"}

\* C9: a subscriber whose delivery failed during a publish is out of the live
\* set when that publish has ended, is not counted by the health query, and no
\* later publish attempts delivery to it.
C9_FailedSubscriberRemoved ==
    /\ PublishEnded =>
          /\ disconnected \cap active_connections = {}
          /\ HealthActiveConnections = Cardinality(active_connections \ disconnected)
    /\ pc = "send" => connection \notin dropped

\* C10: when a publish has ended, every client that was in the live set from
\* its beginning to its end has had exactly one delivery attempt, and no client
\* has had more than one.
C10_EachLiveClientOnce ==
    PublishEnded =>
        /\ \A c \in live_at_start \cap active_connections : attempts[c] = 1
        /\ \A c \in Clients : attempts[c] <= 1

----------------------------------------------------------------------------
\* Properties of the service (checked under SpecS; C12 under FairSpec).

\* C11: for every client, the first snapshot message handed to send_text is
\* the one tagged 'initial' and every later one is tagged 'update'; a client
\* is never in the live set, where the loop could pick it, before the send of
\* its 'initial' message has started.
C11_InitialBeforeUpdates ==
    /\ \A c \in Clients :
          sent_log[c] \in {<< >>, <<"initial">>, <<"initial", "update">>}
    /\ \A c \in active_connections : sent_log[c] # << >>
    /\ pc = "send" => sent_log[connection][1] = "initial"

\* The loop has started an 'update' send to a client whose 'initial' send is
\* still awaited.
C11_Witness ==
    \E c \in Clients :
        /\ ws[c] = "initial"
        /\ pc = "send"
        /\ connection = c
        /\ sent_log[c] = <<"initial", "update">>

\* C12: until the service is shut down, a tick that has ended, with its publish
\* done (sleep of line 52) or with an error raised by update() or by the
\* publish loop (sleep of line 55), is followed by the top of the loop again,
\* and the loop at its top runs the next tick.
C12_LoopReArms ==
    /\ (pc \notin {"tick", "send", "stopped"}) ~> (pc \in {"tick", "stopped"})
    /\ (pc = "tick") ~> (pc \in {"send", "sleep", "sleep_error", "stopped"})

\* A tick is running after the sleep that followed a failed one.
C12_Witness ==
    /\ rearmed
    /\ pc = "send"

----------------------------------------------------------------------------
\* Properties of shutdown and of the loop's pace (checked under SpecB).

\* C13: when the service has been shut down, the publish that was in flight
\* has attempted delivery to every client that was in the live set from its
\* beginning on, and the live set is empty.
C13_GracefulShutdown ==
    pc = "stopped" =>
        /\ \A c \in live_at_start \cap active_connections : attempts[c] >= 1
        /\ active_connections = {}

\* C16: while a send of the publish loop is pending, the next tick can start.
C16_TickNotBehindSends ==
    pc = "send" => ENABLED (MonitorTick \/ MonitorTickRaises)

----------------------------------------------------------------------------
\* Properties of the read accessors (checked under SpecR).

\* C18: a call of get_stats(), get_connections() or get_bandwidth_history()
\* leaves every field of the monitor as it was, and in every state
\* get_stats() reports active_connections equal to the number of entries
\* get_connections() returns.
C18_AccessorsOnlyRead ==
    /\ [](GetStats.active_connections = Cardinality(GetConnections))
    /\ [][result'.seq # result.seq =>
             /\ engineVars' = engineVars
             /\ result'.op = "get_stats" =>
                   result'.stats.active_connections = Cardinality(GetConnections)
             /\ result'.op = "get_connections" =>
                   result'.connections = Values(connections')
             /\ result'.op = "get_bandwidth_history" =>
                   Len(result'.history) = Len(bandwidth_history')
         ]_vars

\* get_stats() was called on a table of two connections with a history point
\* stored.
C18_Witness ==
    /\ result.op = "get_stats"
    /\ result.stats.active_connections = 2
    /\ Cardinality(GetConnections) = 2
    /\ bandwidth_history # << >>

----------------------------------------------------------------------------
\* Properties of who changes the engine (checked under SpecE).

\* The step is the loop's tick: it leaves the top of the loop.
LoopTicked == pc = "tick" /\ pc' # "tick"

\* The step is a handler's subscribe: the send of its initial message starts.
Subscribed == \E c \in Clients : ws[c] = "new" /\ ws'[c] = "initial"

\* C15 as stated: once the monitor is constructed, its state changes only in
\* the loop's tick, one per pass from sleep to sleep; a client subscribing, a
\* keep-alive and a query leave it as it was.
C15_OnlyTheTickMutates ==
    [][Constructed /\ engineVars' # engineVars => LoopTicked]_vars

\* C15 as amended: the state of the monitor changes only in a call of
\* update(), made by the loop once per pass from sleep to sleep, or by the
\* handler of a client that subscribes; keep-alives and queries leave it as it
\* was.
C15_TickOrSubscribeMutates ==
    [][/\ Constructed /\ engineVars' # engineVars =>
             \/ LoopTicked /\ caller' = "monitor_network" /\ ws' = ws
             \/ Subscribed /\ caller' = Handler /\ pc' = pc
       /\ result'.seq # result.seq => engineVars' = engineVars
       /\ (\E c \in Clients : ws[c] # "new" /\ ws'[c] # ws[c]) =>
             engineVars' = engineVars
      ]_vars

\* The first update() was called by a subscribing client's handler and stored
\* a new counter value.
C15_Witness ==
    /\ caller = Handler
    /\ update_calls = 1
    /\ total_bytes_sent = 1
    /\ \E c \in Clients : ws[c] = "initial"

----------------------------------------------------------------------------
\* Properties of update() taken statement by statement (checked under SpecU).

InUpdate == {who \in Coroutines : in_update[who] > 0}

\* C14: at most one coroutine, the loop or the handler of a subscribing
\* client, is inside update() at any time, and an accessor is called only
\* when no coroutine is inside update().
C14_OneUpdateAtATime ==
    /\ [](Cardinality(InUpdate) <= 1)
    /\ [][result'.seq # result.seq => InUpdate = {}]_vars

\* A subscribing client's handler is inside update() while the loop, its
\* sleep over, is due to call update().
C14_Witness ==
    /\ pc = "tick"
    /\ update_calls > 0
    /\ \E c \in Clients : in_update[c] = 2 /\ running = c

----------------------------------------------------------------------------
\* Further properties of the per-process rates (checked under SpecP).

\* C17: a tick in which nettop succeeds, with an earlier successful sample
\* and time passed since it, leaves a rate table whose keys are exactly the
\* pids present in both this sample and the earlier one, also when the
\* earlier sample held no process.
C17_TableReplacedWholesale ==
    [][/\ probe'.nettop = "ok"
       /\ previous_nettop_time # None
       /\ previous_nettop_time' - previous_nettop_time > 0
       => DOMAIN process_bandwidth' =
             DOMAIN previous_process_counters' \cap DOMAIN previous_process_counters
      ]_vars

----------------------------------------------------------------------------
\* Further properties of the connection table (checked under SpecC).

\* C19: an identity that was in the table in an earlier tick, is not in it
\* before this tick, and is enumerated in this tick enters the table as a new
\* connection: its start time is the time of this tick, whatever its first
\* start time was, and its duration is 0.
C19_ReappearingIsNew ==
    [][\A id \in (DOMAIN connections' \cap ever_seen) \ DOMAIN connections :
          /\ connections'[id].start_time = now'
          /\ connections'[id].duration = 0
          /\ connections'[id].start_time >= first_seen[id]
          /\ first_seen'[id] = first_seen[id]
      ]_vars

\* A connection back in the table with a start time later than the time it
\* was first seen.
C19_Witness ==
    \E id \in DOMAIN connections :
        /\ connections[id].start_time > first_seen[id]
        /\ connections[id].start_time = now
        /\ connections[id].duration = 0

----------------------------------------------------------------------------
\* Properties of the subscriber handler (checked under SpecH).

\* C20: a receive that times out, and one that gives a ping, leave the
\* client's membership of the live set as it was, and the ping starts the send
\* of a pong; a message that is no JSON object, and a disconnect, end the
\* handler; every step that ends a handler takes its client out of the live
\* set, and a client whose handler has ended is not in the live set.
C20_HandlerExitRemovesClient ==
    /\ [](\A c \in Clients : ws[c] = "closed" => c \notin active_connections)
    /\ [][/\ last_received'.seq # last_received.seq =>
                LET c == last_received'.client
                    kind == last_received'.kind
                IN  /\ ws[c] = "receiving"
                    /\ kind \in {"timeout", "other"} =>
                          /\ ws'[c] = "receiving"
                          /\ c \in active_connections' <=> c \in active_connections
                    /\ kind = "ping" =>
                          /\ ws'[c] = "pong"
                          /\ c \in active_connections' <=> c \in active_connections
                    /\ kind \in {"garbage", "disconnect"} =>
                          /\ ws'[c] = "closed"
                          /\ c \notin active_connections'
          /\ \A c \in Clients :
                /\ ws[c] # "closed" /\ ws'[c] = "closed" => c \notin active_connections'
                /\ ws[c] = "closed" => ws'[c] = "closed"
         ]_vars

\* A handler that had started the send of its initial message has ended on a
\* message that is no JSON object, and its client has left the live set.
C20_Witness ==
    \E c \in Clients :
        /\ ws[c] = "closed"
        /\ last_received.client = c
        /\ last_received.kind = "garbage"
        /\ sent_log[c] # << >>
        /\ c \notin active_connections

====
